---- MODULE Spec2Model ----
(***************************************************************************)
(* Model of auto-balloon.py: a polling loop that reads a libvirt domain's  *)
(* lifecycle state, dispatches it to a per-state handler and, for a        *)
(* running domain, resizes the balloon with a hysteresis gate.             *)
(***************************************************************************)
EXTENDS Integers, Sequences, FiniteSets

(* ------------------------------ bounds -------------------------------- *)
\* largest counter value (KB, scaled) a memoryStats() reply carries
MaxKB == 2
\* largest --min
MaxMin == 1
\* largest --free
MaxFree == 1
\* largest --minThreshold / --maxThreshold
MaxThreshold == 1

\* --period as argparse delivers it: negative, 0 (disabled) or the default;
\* main() only tests it against 0 and hands it to libvirt and to sleep()
DefaultPeriod == 5
Periods == {-1, 0, DefaultPeriod}

(* --------------------- libvirt lifecycle states ----------------------- *)
VIR_DOMAIN_NOSTATE == 0
VIR_DOMAIN_RUNNING == 1
VIR_DOMAIN_BLOCKED == 2
VIR_DOMAIN_PAUSED == 3
VIR_DOMAIN_SHUTDOWN == 4
VIR_DOMAIN_SHUTOFF == 5
VIR_DOMAIN_CRASHED == 6
VIR_DOMAIN_PMSUSPENDED == 7

\* every value dom.state()[0] can carry
DomainStates == VIR_DOMAIN_NOSTATE .. VIR_DOMAIN_PMSUSPENDED

(* ---------------------------- MemoryStats ----------------------------- *)
\* MemoryStats._attr_names
AttrNames ==
    {"actual", "swap_in", "swap_out", "major_fault", "minor_fault", "unused",
     "available", "usable", "last_update", "disk_caches", "hugetlb_pgalloc",
     "hugetlb_pgfail", "rss"}

\* the keys a memoryStats() reply of the model may carry
SampleKeys == {"actual", "usable"}

\* a dict is a set of <<key, value>> pairs with at most one pair per key
IsDict(d) == \A p \in d : \A q \in d : p[1] = q[1] => p = q

\* the replies dom.memoryStats() can give: any subset of the keys present
Samples == {d \in SUBSET (SampleKeys \X (0 .. MaxKB)) : IsDict(d)}

\* dict.get(name, default)
DictGet(d, name, default) ==
    IF \E p \in d : p[1] = name
    THEN (CHOOSE p \in d : p[1] = name)[2]
    ELSE default

\* MemoryStats.__init__: the reply is stored as it is, nothing is looked up
MemoryStats_init(memoryStats) ==
    [raised |-> FALSE, memoryStats |-> memoryStats]

\* variant: the counter is looked up with memoryStats[name], an absent key
\* raises KeyError
MemoryStats_getattribute_strict(memoryStats, name) ==
    IF name \in AttrNames /\ \E p \in memoryStats : p[1] = name
    THEN [raised |-> FALSE, value |-> DictGet(memoryStats, name, 0)]
    ELSE [raised |-> TRUE, value |-> 0]

\* MemoryStats.__getattribute__: the stored value, 0 when the key is absent;
\* raised is TRUE for a name outside _attr_names (AttributeError)
MemoryStats_getattribute(memoryStats, name) ==
    IF name \in AttrNames
    THEN [raised |-> FALSE, value |-> DictGet(memoryStats, name, 0)]
    ELSE [raised |-> TRUE, value |-> 0]

(* ---------------------------- configuration --------------------------- *)
\* the argparse namespace: every option is type=int, nothing is validated
Args ==
    [period : Periods,
     min : 0 .. MaxMin,
     free : 0 .. MaxFree,
     minThreshold : -1 .. MaxThreshold,
     maxThreshold : -1 .. MaxThreshold]

(* ---------------------------- StateHandler ---------------------------- *)
\* StateHandler._registry as filled by __init_subclass__ at import time
Registry ==
    {<<VIR_DOMAIN_RUNNING, "RunningStateHandler">>,
     <<VIR_DOMAIN_BLOCKED, "NoStateStateHandler">>,
     <<VIR_DOMAIN_PAUSED, "PausedStateHandler">>,
     <<VIR_DOMAIN_SHUTDOWN, "ShutdownStateHandler">>,
     <<VIR_DOMAIN_SHUTOFF, "ShutoffStateHandler">>,
     <<VIR_DOMAIN_PMSUSPENDED, "PmSuspendedStateHandler">>}

\* the states with a registered handler class
RegisteredStates == {p[1] : p \in Registry}

HandlerClasses == {p[2] : p \in Registry}

VARIABLES
    args,        \* the parsed command line
    pc,          \* position in main()
    exitStatus,  \* process exit status, -1 while the process runs
    raised,      \* the exception that left main(), "none" if none did
    session,     \* the libvirt connection: "none", "open" or "closed"
    setup,       \* the calls made before the loop, in order
    handlers,    \* StateHandler._handlers: set of <<state, instance>>
    allocs,      \* per state, the handler instances created for it so far
    state,       \* dom.state()[0] of the latest tick, -1 before the first
    memStats,    \* the memoryStats() reply of the latest tick
    calls,       \* the domain calls of the latest tick, in order
    signal,      \* what handle() returned in the latest tick, -1 if nothing
    sleeps,      \* sleep() calls since the latest dom.state() call
    resolved,    \* the instance StateHandler(state, args) gave in the
                 \* latest tick
    applied,     \* history: the latest tick is a Running tick that sampled
                 \* the target of the previous tick's successful setMemory
                 \* as actual, with actual - usable as in that tick
    down,        \* the domain has shut down for good
    attr         \* the latest attribute read of a MemoryStats by itself

vars == <<args, pc, exitStatus, raised, session, setup, handlers, allocs,
          state, memStats, calls, signal, sleeps, resolved, applied, down,
          attr>>

tickVars == <<state, memStats, calls, signal, resolved, applied>>

\* no instance: StateHandler(...) was not called or raised
NoInstance == [cls |-> "none", id |-> -1]

\* attr before any read
NoAttr == [name |-> "none", raised |-> FALSE, value |-> 0]

\* one domain call of a tick
Call(op, arg, ok) == [op |-> op, arg |-> arg, ok |-> ok]

(* ------------------------- StateHandler.__new__ ----------------------- *)
\* variant: an unregistered state falls back to the no-op class
RegistryLookup_default(st) ==
    IF st \in RegisteredStates
    THEN (CHOOSE p \in Registry : p[1] = st)[2]
    ELSE "NoStateStateHandler"

\* cls._registry[state]; "KeyError" when the state has no registered class
RegistryLookup(st) ==
    IF st \in RegisteredStates
    THEN (CHOOSE p \in Registry : p[1] = st)[2]
    ELSE "KeyError"

\* variant: the cache is not looked at, every call makes a new instance and
\* stores it over the old one
StateHandler_new_alwaysCreate(hs, n, st) ==
    IF RegistryLookup(st) = "KeyError"
    THEN [raised |-> TRUE, self |-> [cls |-> "KeyError", id |-> -1],
          handlers |-> hs, allocs |-> n]
    ELSE [raised |-> FALSE,
          self |-> [cls |-> RegistryLookup(st), id |-> n[st]],
          handlers |-> {p \in hs : p[1] # st}
                       \cup {<<st, [cls |-> RegistryLookup(st), id |-> n[st]]>>},
          allocs |-> [n EXCEPT ![st] = n[st] + 1]]

\* StateHandler.__new__: look the class up (KeyError when unregistered),
\* return the cached instance of the state or create and cache a new one
\* an instance is named by its class and by how many instances were made for
\* its state before it (two instances are the same object iff equal)
StateHandler_new(hs, n, st) ==
    IF RegistryLookup(st) = "KeyError"
    THEN [raised |-> TRUE, self |-> [cls |-> "KeyError", id |-> -1],
          handlers |-> hs, allocs |-> n]
    ELSE IF \E p \in hs : p[1] = st
         THEN [raised |-> FALSE, self |-> (CHOOSE p \in hs : p[1] = st)[2],
               handlers |-> hs, allocs |-> n]
         ELSE [raised |-> FALSE,
               self |-> [cls |-> RegistryLookup(st), id |-> n[st]],
               handlers |-> hs \cup {<<st, [cls |-> RegistryLookup(st), id |-> n[st]]>>},
               allocs |-> [n EXCEPT ![st] = n[st] + 1]]

\* StateHandler.__init__: runs on every StateHandler(state, args) call and
\* (re)binds the instance's _state and _args
StateHandler_init(self, st, a) ==
    [cls |-> self.cls, id |-> self.id, state |-> st, args |-> a]

(* ------------------------------ handle() ------------------------------ *)
\* the body of RunningStateHandler.handle with its parts made explicit:
\* mem0 the unclamped target, mem the clamped one, gate the resize
\* condition, again whether a failed setMemory is called a second time and
\* caught whether the except clause is there
RunningBody(sample, setOk, mem, gate, again, caught) ==
    IF gate
    THEN [raised |-> ~setOk /\ ~caught, ret |-> 0, memStats |-> sample,
          calls |-> IF ~setOk /\ again
                    THEN <<Call("memoryStats", 0, TRUE),
                           Call("setMemory", mem, FALSE),
                           Call("setMemory", mem, FALSE)>>
                    ELSE <<Call("memoryStats", 0, TRUE),
                           Call("setMemory", mem, setOk)>>]
    ELSE [raised |-> FALSE, ret |-> 0, memStats |-> sample,
          calls |-> <<Call("memoryStats", 0, TRUE)>>]

\* variant: the gate compares with <= and >=
RunningStateHandler_handle_inclusive(self, statsOk, sample, setOk) ==
    IF ~statsOk
    THEN [raised |-> FALSE, ret |-> 0, memStats |-> {},
          calls |-> <<Call("memoryStats", 0, FALSE)>>]
    ELSE LET a == self.args
             prevMem == MemoryStats_getattribute(sample, "actual").value
             mem0 == prevMem - MemoryStats_getattribute(sample, "usable").value
                     + a.free
             mem == IF mem0 > a.min THEN mem0 ELSE a.min
             delta == prevMem - mem
         IN  RunningBody(sample, setOk, mem,
                         delta <= -a.minThreshold \/ delta >= a.maxThreshold,
                         FALSE, TRUE)

\* variant: usable is added instead of subtracted
RunningStateHandler_handle_plusUsable(self, statsOk, sample, setOk) ==
    IF ~statsOk
    THEN [raised |-> FALSE, ret |-> 0, memStats |-> {},
          calls |-> <<Call("memoryStats", 0, FALSE)>>]
    ELSE LET a == self.args
             prevMem == MemoryStats_getattribute(sample, "actual").value
             mem0 == prevMem + MemoryStats_getattribute(sample, "usable").value
                     + a.free
             mem == IF mem0 > a.min THEN mem0 ELSE a.min
             delta == prevMem - mem
         IN  RunningBody(sample, setOk, mem,
                         delta < -a.minThreshold \/ delta > a.maxThreshold,
                         FALSE, TRUE)

\* variant: the clamp to args.min is missing
RunningStateHandler_handle_noClamp(self, statsOk, sample, setOk) ==
    IF ~statsOk
    THEN [raised |-> FALSE, ret |-> 0, memStats |-> {},
          calls |-> <<Call("memoryStats", 0, FALSE)>>]
    ELSE LET a == self.args
             prevMem == MemoryStats_getattribute(sample, "actual").value
             mem == prevMem - MemoryStats_getattribute(sample, "usable").value
                    + a.free
             delta == prevMem - mem
         IN  RunningBody(sample, setOk, mem,
                         delta < -a.minThreshold \/ delta > a.maxThreshold,
                         FALSE, TRUE)

\* variant: a failed setMemory is tried once more in the same call
RunningStateHandler_handle_retry(self, statsOk, sample, setOk) ==
    IF ~statsOk
    THEN [raised |-> FALSE, ret |-> 0, memStats |-> {},
          calls |-> <<Call("memoryStats", 0, FALSE)>>]
    ELSE LET a == self.args
             prevMem == MemoryStats_getattribute(sample, "actual").value
             mem0 == prevMem - MemoryStats_getattribute(sample, "usable").value
                     + a.free
             mem == IF mem0 > a.min THEN mem0 ELSE a.min
             delta == prevMem - mem
         IN  RunningBody(sample, setOk, mem,
                         delta < -a.minThreshold \/ delta > a.maxThreshold,
                         TRUE, TRUE)

\* variant: no except clause, a libvirtError leaves handle()
RunningStateHandler_handle_uncaught(self, statsOk, sample, setOk) ==
    IF ~statsOk
    THEN [raised |-> TRUE, ret |-> 0, memStats |-> {},
          calls |-> <<Call("memoryStats", 0, FALSE)>>]
    ELSE LET a == self.args
             prevMem == MemoryStats_getattribute(sample, "actual").value
             mem0 == prevMem - MemoryStats_getattribute(sample, "usable").value
                     + a.free
             mem == IF mem0 > a.min THEN mem0 ELSE a.min
             delta == prevMem - mem
         IN  RunningBody(sample, setOk, mem,
                         delta < -a.minThreshold \/ delta > a.maxThreshold,
                         FALSE, FALSE)

\* variant: no gate, every tick with a sample resizes
RunningStateHandler_handle_noGate(self, statsOk, sample, setOk) ==
    IF ~statsOk
    THEN [raised |-> FALSE, ret |-> 0, memStats |-> {},
          calls |-> <<Call("memoryStats", 0, FALSE)>>]
    ELSE LET a == self.args
             prevMem == MemoryStats_getattribute(sample, "actual").value
             mem0 == prevMem - MemoryStats_getattribute(sample, "usable").value
                     + a.free
             mem == IF mem0 > a.min THEN mem0 ELSE a.min
         IN  RunningBody(sample, setOk, mem, TRUE, FALSE, TRUE)

\* variant: the free margin is added twice
RunningStateHandler_handle_doubleFree(self, statsOk, sample, setOk) ==
    IF ~statsOk
    THEN [raised |-> FALSE, ret |-> 0, memStats |-> {},
          calls |-> <<Call("memoryStats", 0, FALSE)>>]
    ELSE LET a == self.args
             prevMem == MemoryStats_getattribute(sample, "actual").value
             mem0 == prevMem - MemoryStats_getattribute(sample, "usable").value
                     + a.free + a.free
             mem == IF mem0 > a.min THEN mem0 ELSE a.min
             delta == prevMem - mem
         IN  RunningBody(sample, setOk, mem,
                         delta < -a.minThreshold \/ delta > a.maxThreshold,
                         FALSE, TRUE)

\* RunningStateHandler.handle: statsOk, sample and setOk are what the
\* hypervisor answers to memoryStats() and setMemory(); raised tells whether
\* an exception leaves handle() (the except clause at line 97 catches the
\* libvirtError of either call, so none does)
RunningStateHandler_handle(self, statsOk, sample, setOk) ==
    IF ~statsOk
    THEN \* dom.memoryStats() raises libvirtError, caught at line 97
         [raised |-> FALSE, ret |-> 0, memStats |-> {},
          calls |-> <<Call("memoryStats", 0, FALSE)>>]
    ELSE LET a == self.args
             prevMem == MemoryStats_getattribute(sample, "actual").value
             mem0 == MemoryStats_getattribute(sample, "actual").value
                     - MemoryStats_getattribute(sample, "usable").value
                     + a.free
             mem == IF mem0 > a.min THEN mem0 ELSE a.min
             delta == prevMem - mem
         IN  IF delta < -a.minThreshold \/ delta > a.maxThreshold
             THEN \* a libvirtError of setMemory is caught at line 97
                  [raised |-> FALSE, ret |-> 0, memStats |-> sample,
                   calls |-> <<Call("memoryStats", 0, TRUE),
                               Call("setMemory", mem, setOk)>>]
             ELSE [raised |-> FALSE, ret |-> 0, memStats |-> sample,
                   calls |-> <<Call("memoryStats", 0, TRUE)>>]

\* variant: the no-op handler fetches the memory statistics too
NoStateStateHandler_handle_stats(self) ==
    [raised |-> FALSE, ret |-> 0, memStats |-> {},
     calls |-> <<Call("memoryStats", 0, TRUE)>>]

\* NoStateStateHandler.handle (registered for VIR_DOMAIN_BLOCKED)
NoStateStateHandler_handle(self) ==
    [raised |-> FALSE, ret |-> 0, memStats |-> {}, calls |-> <<>>]

\* variant: the paused handler shrinks the domain to args.min
PausedStateHandler_handle_resize(self) ==
    [raised |-> FALSE, ret |-> 0, memStats |-> {},
     calls |-> <<Call("setMemory", self.args.min, TRUE)>>]

\* PausedStateHandler.handle
PausedStateHandler_handle(self) ==
    [raised |-> FALSE, ret |-> 0, memStats |-> {}, calls |-> <<>>]

\* variant: the shutting-down handler asks to go on
ShutdownStateHandler_handle_continue(self) ==
    [raised |-> FALSE, ret |-> 0, memStats |-> {}, calls |-> <<>>]

\* ShutdownStateHandler.handle
ShutdownStateHandler_handle(self) ==
    [raised |-> FALSE, ret |-> 1, memStats |-> {}, calls |-> <<>>]

\* variant: the shut-off handler asks to go on
ShutoffStateHandler_handle_continue(self) ==
    [raised |-> FALSE, ret |-> 0, memStats |-> {}, calls |-> <<>>]

\* ShutoffStateHandler.handle
ShutoffStateHandler_handle(self) ==
    [raised |-> FALSE, ret |-> 1, memStats |-> {}, calls |-> <<>>]

\* variant: the suspended handler asks to stop
PmSuspendedStateHandler_handle_stop(self) ==
    [raised |-> FALSE, ret |-> 1, memStats |-> {}, calls |-> <<>>]

\* PmSuspendedStateHandler.handle
PmSuspendedStateHandler_handle(self) ==
    [raised |-> FALSE, ret |-> 0, memStats |-> {}, calls |-> <<>>]

\* self.handle(dom): the method of the instance's class
Handle(self, statsOk, sample, setOk) ==
    CASE self.cls = "RunningStateHandler" ->
             RunningStateHandler_handle(self, statsOk, sample, setOk)
      [] self.cls = "NoStateStateHandler" -> NoStateStateHandler_handle(self)
      [] self.cls = "PausedStateHandler" -> PausedStateHandler_handle(self)
      [] self.cls = "ShutdownStateHandler" -> ShutdownStateHandler_handle(self)
      [] self.cls = "ShutoffStateHandler" -> ShutoffStateHandler_handle(self)
      [] self.cls = "PmSuspendedStateHandler" -> PmSuspendedStateHandler_handle(self)

\* what the hypervisor can answer to the calls handle() makes: memoryStats()
\* raises, or returns a sample and setMemory() then succeeds or raises
Answers ==
    {[statsOk |-> FALSE, sample |-> {}, setOk |-> TRUE]}
    \cup [statsOk : {TRUE}, sample : Samples, setOk : BOOLEAN]

\* only RunningStateHandler.handle calls the hypervisor: for the other
\* classes there is nothing to answer
AnswersFor(self) ==
    IF self.cls = "RunningStateHandler"
    THEN Answers
    ELSE {[statsOk |-> FALSE, sample |-> {}, setOk |-> TRUE]}

(* ----------------------- reading the latest tick ---------------------- *)
\* the value the latest sample gives for a counter, 0 when it has none
Field(name) ==
    IF \E p \in memStats : p[1] = name
    THEN (CHOOSE p \in memStats : p[1] = name)[2]
    ELSE 0

Max(a, b) == IF a >= b THEN a ELSE b

\* target and delta as the resize algorithm is specified
SpecTarget == Max(Field("actual") - Field("usable") + args.free, args.min)

SpecDelta == Field("actual") - SpecTarget

GateOpen == SpecDelta < -args.minThreshold \/ SpecDelta > args.maxThreshold

\* positions of the setMemory calls of the latest tick
SetMemoryCalls == {i \in DOMAIN calls : calls[i].op = "setMemory"}

\* positions of the calls of the latest tick that raised
FailedCalls == {i \in DOMAIN calls : ~calls[i].ok}

\* memoryStats() was called in the latest tick and returned a sample
StatsSucceeded ==
    \E i \in DOMAIN calls : calls[i].op = "memoryStats" /\ calls[i].ok

(* -------------------------------- main -------------------------------- *)
Init ==
    /\ args \in Args
    /\ pc = "main"
    /\ exitStatus = -1
    /\ raised = "none"
    /\ session = "none"
    /\ setup = <<>>
    /\ handlers = {}
    /\ allocs = [st \in DomainStates |-> 0]
    /\ state = -1
    /\ memStats = {}
    /\ calls = <<>>
    /\ signal = -1
    /\ sleeps = 0
    /\ resolved = NoInstance
    /\ applied = FALSE
    /\ down = FALSE
    /\ attr = NoAttr

\* variant: the connection is not used as a context manager, an exception
\* leaves it open
Escape_leak(exc) ==
    /\ pc' = "exit"
    /\ exitStatus' = 1
    /\ raised' = exc
    /\ session' = session

\* an exception leaves main(): the with block closes the connection if it
\* was opened, the interpreter prints the traceback and exits with status 1
Escape(exc) ==
    /\ pc' = "exit"
    /\ exitStatus' = 1
    /\ raised' = exc
    /\ session' = IF session = "open" THEN "closed" ELSE session

\* main() returns 0 from inside the with block: exit(0)
Return0 ==
    /\ pc' = "exit"
    /\ exitStatus' = 0
    /\ raised' = raised
    /\ session' = IF session = "open" THEN "closed" ELSE session

\* variant: the period is not looked at before the connection is opened
CheckPeriod_noCheck ==
    /\ pc = "main"
    /\ pc' = "open"
    /\ UNCHANGED <<exitStatus, raised, session>>
    /\ UNCHANGED <<args, setup, handlers, allocs, sleeps, down, attr>>
    /\ UNCHANGED tickVars

\* if args.period == 0: return 0
CheckPeriod ==
    /\ pc = "main"
    /\ IF args.period = 0
       THEN Return0
       ELSE pc' = "open" /\ UNCHANGED <<exitStatus, raised, session>>
    /\ UNCHANGED <<args, setup, handlers, allocs, sleeps, down, attr>>
    /\ UNCHANGED tickVars

\* with libvirt.open(args.connect) as connection
Open ==
    /\ pc = "open"
    /\ setup' = Append(setup, "open")
    /\ \E ok \in BOOLEAN :
          IF ok
          THEN /\ pc' = "lookupByName"
               /\ session' = "open"
               /\ UNCHANGED <<exitStatus, raised>>
          ELSE Escape("libvirtError")
    /\ UNCHANGED <<args, handlers, allocs, sleeps, down, attr>>
    /\ UNCHANGED tickVars

\* dom = connection.lookupByName(args.vmname)
LookupByName ==
    /\ pc = "lookupByName"
    /\ setup' = Append(setup, "lookupByName")
    /\ \E ok \in BOOLEAN :
          IF ok
          THEN pc' = "setMemoryStatsPeriod" /\ UNCHANGED <<exitStatus, raised, session>>
          ELSE Escape("libvirtError")
    /\ UNCHANGED <<args, handlers, allocs, sleeps, down, attr>>
    /\ UNCHANGED tickVars

\* variant: the statistics period is never set
SetMemoryStatsPeriod_skipped ==
    /\ pc = "setMemoryStatsPeriod"
    /\ pc' = "loop"
    /\ UNCHANGED <<exitStatus, raised, session>>
    /\ UNCHANGED <<args, setup, handlers, allocs, sleeps, down, attr>>
    /\ UNCHANGED tickVars

\* dom.setMemoryStatsPeriod(args.period); libvirt refuses a negative period
\* (virDomainSetMemoryStatsPeriod checks the argument is non-negative)
SetMemoryStatsPeriod ==
    /\ pc = "setMemoryStatsPeriod"
    /\ setup' = Append(setup, "setMemoryStatsPeriod")
    /\ \E ok \in BOOLEAN :
          IF ok /\ args.period >= 0
          THEN pc' = "loop" /\ UNCHANGED <<exitStatus, raised, session>>
          ELSE Escape("libvirtError")
    /\ UNCHANGED <<args, handlers, allocs, sleeps, down, attr>>
    /\ UNCHANGED tickVars

\* the states dom.state() can report: any, until the domain has shut down
\* for good, and SHUTDOWN or SHUTOFF from then on
ObservableStates ==
    IF down
    THEN {VIR_DOMAIN_SHUTDOWN, VIR_DOMAIN_SHUTOFF}
    ELSE DomainStates

\* actual - usable of the latest sample
Used == Field("actual") - Field("usable")

\* the step is a Running tick with a sample, right after a Running tick whose
\* setMemory succeeded, and the hypervisor applied that request: the new
\* sample's actual is the requested target and actual - usable is unchanged
AppliedStep ==
    /\ state = VIR_DOMAIN_RUNNING
    /\ state' = VIR_DOMAIN_RUNNING
    /\ StatsSucceeded'
    /\ \E i \in SetMemoryCalls : calls[i].ok /\ calls[i].arg = Field("actual")'
    /\ Used' = Used

\* one pass of the while body up to the sleep:
\* if StateHandler(dom.state()[0], args).handle(dom): return 0
Tick ==
    /\ pc = "loop"
    /\ sleeps' = 0
    /\ \E stateOk \in BOOLEAN :
          IF ~stateOk
          THEN \* dom.state() raises libvirtError outside any try
               /\ state' = -1
               /\ calls' = <<Call("state", 0, FALSE)>>
               /\ memStats' = {}
               /\ signal' = -1
               /\ resolved' = NoInstance
               /\ UNCHANGED <<handlers, allocs>>
               /\ Escape("libvirtError")
          ELSE \E st \in ObservableStates :
               LET new == StateHandler_new(handlers, allocs, st)
               IN  IF new.raised
                   THEN /\ state' = st
                        /\ calls' = <<Call("state", 0, TRUE)>>
                        /\ memStats' = {}
                        /\ signal' = -1
                        /\ resolved' = NoInstance
                        /\ UNCHANGED <<handlers, allocs>>
                        /\ Escape("KeyError")
                   ELSE \E ans \in AnswersFor(new.self) :
                        LET self == StateHandler_init(new.self, st, args)
                            h == Handle(self, ans.statsOk, ans.sample, ans.setOk)
                        IN  /\ state' = st
                            /\ calls' = <<Call("state", 0, TRUE)>> \o h.calls
                            /\ memStats' = h.memStats
                            /\ signal' = IF h.raised THEN -1 ELSE h.ret
                            /\ handlers' = new.handlers
                            /\ allocs' = new.allocs
                            /\ resolved' = new.self
                            /\ IF h.raised
                               THEN Escape("libvirtError")
                               ELSE IF h.ret # 0
                                    THEN Return0
                                    ELSE /\ pc' = "sleep"
                                         /\ UNCHANGED <<exitStatus, raised, session>>
    /\ applied' = AppliedStep
    /\ UNCHANGED <<args, setup, down, attr>>

\* sleep(args.period); time.sleep raises ValueError on a negative length
Sleep ==
    /\ pc = "sleep"
    /\ IF args.period < 0
       THEN Escape("ValueError") /\ UNCHANGED sleeps
       ELSE /\ pc' = "loop"
            /\ sleeps' = sleeps + 1
            /\ UNCHANGED <<exitStatus, raised, session>>
    /\ UNCHANGED <<args, setup, handlers, allocs, down, attr>>
    /\ UNCHANGED tickVars

Next ==
    \/ CheckPeriod
    \/ Open
    \/ LookupByName
    \/ SetMemoryStatsPeriod
    \/ Tick
    \/ Sleep

Spec == Init /\ [][Next]_vars

(* ------------------ a domain that shuts down for good ----------------- *)
\* the domain starts to shut down and is not started again: from now on
\* dom.state() reports SHUTDOWN or SHUTOFF
VmGoesDown ==
    /\ ~down
    /\ pc # "exit"
    /\ down' = TRUE
    /\ UNCHANGED <<args, pc, exitStatus, raised, session, setup, handlers,
                   allocs, sleeps, attr>>
    /\ UNCHANGED tickVars

NextLive == Next \/ VmGoesDown

\* main() is one sequential thread: every call it makes returns and sleep()
\* ends, so the statement it is at is eventually executed
Fairness ==
    /\ WF_vars(CheckPeriod)
    /\ WF_vars(Open)
    /\ WF_vars(LookupByName)
    /\ WF_vars(SetMemoryStatsPeriod)
    /\ WF_vars(Tick)
    /\ WF_vars(Sleep)

LiveSpec == Init /\ [][NextLive]_vars /\ Fairness

(* ------------------- MemoryStats read on its own --------------------- *)
\* raw replies over all thirteen counters: any subset of them present
RawStats ==
    {{<<k, v>> : k \in D} : D \in SUBSET AttrNames, v \in 1 .. MaxKB}

InitStats ==
    /\ memStats \in RawStats
    /\ attr = NoAttr
    /\ args = [period |-> 0, min |-> 0, free |-> 0,
               minThreshold |-> 0, maxThreshold |-> 0]
    /\ pc = "main"
    /\ exitStatus = -1
    /\ raised = "none"
    /\ session = "none"
    /\ setup = <<>>
    /\ handlers = {}
    /\ allocs = [st \in DomainStates |-> 0]
    /\ state = -1
    /\ calls = <<>>
    /\ signal = -1
    /\ sleeps = 0
    /\ resolved = NoInstance
    /\ applied = FALSE
    /\ down = FALSE

\* MemoryStats(reply).<name> for one of the named counters
ReadAttr ==
    /\ \E name \in AttrNames :
          LET ms == MemoryStats_init(memStats)
              r == MemoryStats_getattribute(ms.memoryStats, name)
          IN  attr' = [name |-> name, raised |-> ms.raised \/ r.raised,
                       value |-> r.value]
    /\ UNCHANGED <<args, pc, exitStatus, raised, session, setup, handlers,
                   allocs, sleeps, down>>
    /\ UNCHANGED tickVars

NextStats == ReadAttr

SpecStats == InitStats /\ [][NextStats]_vars

TypeOK ==
    /\ args \in Args
    /\ pc \in {"main", "open", "lookupByName", "setMemoryStatsPeriod", "loop", "sleep", "exit"}
    /\ exitStatus \in {-1, 0, 1}
    /\ raised \in {"none", "libvirtError", "KeyError", "ValueError"}
    /\ session \in {"none", "open", "closed"}
    /\ state \in {-1} \cup DomainStates
    /\ memStats \in Samples
    /\ signal \in {-1, 0, 1}
    /\ sleeps \in {0, 1}
    /\ resolved.cls \in HandlerClasses \cup {"none"}
    /\ applied \in BOOLEAN
    /\ down \in BOOLEAN
    /\ attr = NoAttr

(* --------------------------- loop progress ---------------------------- *)
\* the latest tick ended with Continue and the loop goes on: the sleep is
\* pending, or it is over and the next dom.state() is due
LoopGoesOn ==
    /\ signal = 0
    /\ exitStatus = -1
    /\ raised = "none"
    /\ \/ pc = "sleep" /\ sleeps = 0 /\ ENABLED Sleep
       \/ pc = "loop" /\ sleeps = 1 /\ ENABLED Tick

(* -------------------------------- claims ------------------------------- *)
\* C1: in a Running tick whose memoryStats() succeeded, setMemory is
\* requested if and only if delta < -minThreshold or delta > maxThreshold;
\* inside the band, bounds included, nothing is requested.
C1_HysteresisGate ==
    (state = VIR_DOMAIN_RUNNING /\ StatsSucceeded)
        => ((SetMemoryCalls # {}) <=> GateOpen)

C1_Witness ==
    /\ state = VIR_DOMAIN_RUNNING
    /\ StatsSucceeded
    /\ SpecDelta < -args.minThreshold
    /\ SetMemoryCalls # {}

\* C2: the target of a Running tick is max(actual - usable + free, min) and
\* delta is actual - target; when the gate is open exactly one setMemory is
\* made in the tick and it carries that target.
C2_TargetAndSingleCall ==
    (state = VIR_DOMAIN_RUNNING /\ StatsSucceeded)
        => /\ \A i \in SetMemoryCalls : calls[i].arg = SpecTarget
           /\ Cardinality(SetMemoryCalls) <= 1
           /\ GateOpen => Cardinality(SetMemoryCalls) = 1

C2_Witness ==
    /\ state = VIR_DOMAIN_RUNNING
    /\ StatsSucceeded
    /\ Field("usable") > 0
    /\ SpecDelta > args.maxThreshold
    /\ SpecTarget > args.min
    /\ \E i \in SetMemoryCalls : calls[i].arg = SpecTarget /\ calls[i].ok

\* C3: whatever the states and samples, missing fields included, every
\* setMemory request carries a target of at least args.min.
C3_TargetAtLeastMin ==
    \A i \in SetMemoryCalls : calls[i].arg >= args.min

C3_Witness ==
    /\ state = VIR_DOMAIN_RUNNING
    /\ StatsSucceeded
    /\ memStats = {}
    /\ args.min > args.free
    /\ \E i \in SetMemoryCalls : calls[i].arg = args.min

\* C4: a tick that observes SHUTDOWN or SHUTOFF gets Stop and the process
\* ends in that tick with status 0: no setMemory, no sleep and no further
\* state fetch follow the observation.
C4_StopExits ==
    state \in {VIR_DOMAIN_SHUTDOWN, VIR_DOMAIN_SHUTOFF}
        => /\ signal = 1
           /\ pc = "exit"
           /\ exitStatus = 0
           /\ raised = "none"
           /\ calls = <<Call("state", 0, TRUE)>>
           /\ sleeps = 0
           /\ ~ENABLED Next

C4_Witness ==
    /\ state = VIR_DOMAIN_SHUTOFF
    /\ pc = "exit"
    /\ exitStatus = 0
    /\ handlers # {}

\* C5: a tick that observes RUNNING, PAUSED or PMSUSPENDED gets Continue,
\* whether the resize was made, gated off or failed, and the loop does not
\* end: it sleeps and then starts the next tick.
C5_ContinueStates ==
    state \in {VIR_DOMAIN_RUNNING, VIR_DOMAIN_PAUSED, VIR_DOMAIN_PMSUSPENDED}
        => LoopGoesOn

C5_Witness ==
    /\ state = VIR_DOMAIN_PMSUSPENDED
    /\ signal = 0
    /\ pc = "loop"
    /\ sleeps = 1

\* C6: a tick that observes NOSTATE resolves to a registered no-op handler,
\* makes no hypervisor call beyond the state fetch, gets Continue, and the
\* loop sleeps and polls again.
C6_NoStateContinues ==
    state = VIR_DOMAIN_NOSTATE
        => /\ calls = <<Call("state", 0, TRUE)>>
           /\ LoopGoesOn

\* C7: a failure of memoryStats() or setMemory() in a Running tick is
\* absorbed: Continue is returned, setMemory is not called a second time,
\* the process does not end and the next tick runs after the sleep.
C7_FailureAbsorbed ==
    (state = VIR_DOMAIN_RUNNING /\ FailedCalls # {})
        => /\ Cardinality(FailedCalls) = 1
           /\ Cardinality(SetMemoryCalls) <= 1
           /\ Len(calls) <= 3
           /\ LoopGoesOn

C7_Witness ==
    /\ state = VIR_DOMAIN_RUNNING
    /\ \E i \in SetMemoryCalls : ~calls[i].ok
    /\ pc = "loop"
    /\ sleeps = 1

\* C8 as stated: once the loop is entered only an unmapped state ends it
\* with an error; every failed hypervisor call of a tick, the dom.state()
\* fetch included, is absorbed.
C8_OnlyUnmappedStateEnds ==
    (calls # <<>> /\ exitStatus = 1) => raised = "KeyError"

\* C8 amended: once the loop is entered, the errors that end it are an
\* unmapped state (KeyError) and a failure of the dom.state() fetch at the
\* start of a tick (libvirtError); a failure of memoryStats() or setMemory()
\* is absorbed and the loop goes on to the next tick.
C8_StateFetchOrUnmappedEnds ==
    /\ (calls # <<>> /\ exitStatus = 1)
          => \/ raised = "KeyError" /\ state \in DomainStates \ RegisteredStates
             \/ raised = "libvirtError" /\ calls = <<Call("state", 0, FALSE)>>
    /\ (\E i \in FailedCalls : calls[i].op # "state") => LoopGoesOn

C8_Witness ==
    /\ pc = "exit"
    /\ exitStatus = 1
    /\ raised = "libvirtError"
    /\ calls = <<Call("state", 0, FALSE)>>
    /\ handlers # {}

\* C9: a tick that observes a state with no registered handler ends the
\* loop with an error and a failure status: it is not a silent no-op, no
\* setMemory is made for it and polling does not go on.
C9_UnmappedStateFatal ==
    (state \in DomainStates /\ state \notin RegisteredStates)
        => /\ raised = "KeyError"
           /\ pc = "exit"
           /\ exitStatus = 1
           /\ signal = -1
           /\ calls = <<Call("state", 0, TRUE)>>
           /\ ~ENABLED Next

C9_Witness ==
    /\ state = VIR_DOMAIN_CRASHED
    /\ raised = "KeyError"
    /\ exitStatus = 1

\* C10: with period 0 the process ends with status 0 and never runs the
\* loop body: no connection is opened and no hypervisor call is made.
C10_PeriodZero ==
    args.period = 0
        => /\ pc \in {"main", "exit"}
           /\ pc = "exit" => exitStatus = 0
           /\ exitStatus \in {-1, 0}
           /\ raised = "none"
           /\ session = "none"
           /\ setup = <<>>
           /\ calls = <<>>
           /\ state = -1
           /\ pc = "main" => ENABLED CheckPeriod

C10_Witness ==
    /\ args.period = 0
    /\ pc = "exit"
    /\ exitStatus = 0

\* C11: the dispatcher gives the same instance for the same state on every
\* call and creates one only on the first request: the cache holds at most
\* one instance per state, of the class registered for that state.
C11_SingletonPerState ==
    /\ \A p \in handlers : \A q \in handlers : p[1] = q[1] => p = q
    /\ \A p \in handlers : <<p[1], p[2].cls>> \in Registry
    /\ \A st \in DomainStates :
          allocs[st] = Cardinality({p \in handlers : p[1] = st})
    /\ state \in RegisteredStates
          => <<state, resolved>> \in handlers /\ resolved.id = 0

\* RUNNING was resolved in two ticks in a row and the second call gave the
\* instance made by the first
C11_Witness ==
    /\ applied
    /\ state = VIR_DOMAIN_RUNNING
    /\ resolved = [cls |-> "RunningStateHandler", id |-> 0]
    /\ allocs[VIR_DOMAIN_RUNNING] = 1

\* C12: the connection is opened at most once and is closed on every way
\* out of a run that opened it; while the run is past the open and not
\* over, it is open.
C12_SessionReleased ==
    /\ Cardinality({i \in DOMAIN setup : setup[i] = "open"}) <= 1
    /\ pc \in {"lookupByName", "setMemoryStatsPeriod", "loop", "sleep"}
          => session = "open"
    /\ (pc = "exit" /\ Len(setup) >= 2) => session = "closed"
    /\ pc = "exit" => session # "open"

C12_Witness ==
    /\ pc = "exit"
    /\ raised = "KeyError"
    /\ session = "closed"
    /\ Len(setup) = 3

\* C13: a negative minThreshold, maxThreshold or period is found at start-up
\* and is fatal: the process ends with a failure before the first tick, so
\* no state fetch and no setMemory is made.
C13_BadConfigFatal ==
    (args.minThreshold < 0 \/ args.maxThreshold < 0 \/ args.period < 0)
        => /\ calls = <<>>
           /\ pc \notin {"loop", "sleep"}
           /\ exitStatus # 0

\* C15: a tick that observes a state other than RUNNING makes no setMemory
\* request.
C15_NonRunningNoResize ==
    (state \in DomainStates /\ state # VIR_DOMAIN_RUNNING)
        => SetMemoryCalls = {}

C15_Witness ==
    /\ state = VIR_DOMAIN_PAUSED
    /\ pc = "sleep"
    /\ calls = <<Call("state", 0, TRUE)>>
    /\ allocs[VIR_DOMAIN_RUNNING] = 1

\* C14: for every raw sample (any subset of the thirteen counters present)
\* and every named counter, reading the counter gives the stored value when
\* it is present and 0 when it is absent, and neither the construction nor
\* the read raises.
C14_FieldTotal ==
    attr # NoAttr
        => /\ attr.name \in AttrNames
           /\ ~attr.raised
           /\ \A p \in memStats : p[1] = attr.name => attr.value = p[2]
           /\ (\A p \in memStats : p[1] # attr.name) => attr.value = 0

C14_Witness ==
    /\ attr.name = "rss"
    /\ ~attr.raised
    /\ attr.value = 0
    /\ \E p \in memStats : p[1] = "actual"
    /\ \A p \in memStats : p[1] # "rss"

\* C16: if the period is not 0, no hypervisor call raises out of main(), no
\* unmapped state is observed and from some tick on the domain is only seen
\* as SHUTDOWN or SHUTOFF, the loop eventually ends, with status 0.
C16_EventuallyExits ==
    (args.period # 0 /\ [](raised = "none") /\ <>down)
        => <>(pc = "exit" /\ exitStatus = 0)

C16_Witness ==
    /\ down
    /\ pc = "exit"
    /\ exitStatus = 0
    /\ raised = "none"
    /\ state = VIR_DOMAIN_SHUTDOWN
    /\ allocs[VIR_DOMAIN_RUNNING] = 1

\* the calls main() makes before the loop
FullSetup == <<"open", "lookupByName", "setMemoryStatsPeriod">>

\* C17: with a period other than 0 the calls go open, lookupByName,
\* setMemoryStatsPeriod (once), then the first dom.state(); the period is
\* not set again once the loop runs, and between two dom.state() calls
\* there is exactly one sleep.
C17_CallOrder ==
    /\ \E n \in 0 .. Len(FullSetup) : setup = SubSeq(FullSetup, 1, n)
    /\ (pc \in {"loop", "sleep"} \/ calls # <<>>) => setup = FullSetup
    /\ pc = "loop" => sleeps = (IF calls = <<>> THEN 0 ELSE 1)
    /\ pc = "sleep" => sleeps = 0 /\ calls # <<>>

C17_Witness ==
    /\ args.period # 0
    /\ setup = FullSetup
    /\ pc = "loop"
    /\ calls # <<>>
    /\ sleeps = 1

\* C18 as stated: in every tick, whatever the state, the state is fetched,
\* then a memory snapshot, and only then the state's handler is chosen.
C18_StatsBeforeDispatch ==
    resolved # NoInstance
        => /\ Len(calls) >= 2
           /\ calls[1].op = "state"
           /\ calls[2].op = "memoryStats"

\* C18 amended: in every tick the state is fetched first and the handler is
\* chosen from it; a memory snapshot is fetched only in a tick whose state
\* is RUNNING, by the running handler itself, right after the state fetch,
\* and a tick of any other state fetches none.
C18_StatsOnlyInRunning ==
    calls # <<>>
        => /\ calls[1].op = "state"
           /\ \A i \in 2 .. Len(calls) : calls[i].op # "state"
           /\ (\E i \in DOMAIN calls : calls[i].op = "memoryStats")
                 <=> state = VIR_DOMAIN_RUNNING
           /\ state = VIR_DOMAIN_RUNNING
                 => /\ calls[2].op = "memoryStats"
                    /\ resolved.cls = "RunningStateHandler"

C18_Witness ==
    /\ state = VIR_DOMAIN_PAUSED
    /\ resolved.cls = "PausedStateHandler"
    /\ calls = <<Call("state", 0, TRUE)>>
    /\ signal = 0

\* C19: with both thresholds >= 0, when a Running tick's setMemory(target)
\* succeeded and the next sample has actual = target and the same
\* actual - usable, the next Running tick has delta = 0 and requests nothing.
C19_NoSecondResize ==
    (applied /\ args.minThreshold >= 0 /\ args.maxThreshold >= 0)
        => /\ SpecDelta = 0
           /\ SetMemoryCalls = {}

C19_Witness ==
    /\ applied
    /\ args.minThreshold >= 0
    /\ args.maxThreshold >= 0
    /\ Field("actual") > 0
    /\ calls = <<Call("state", 0, TRUE), Call("memoryStats", 0, TRUE)>>

\* C20: for a sample with usable >= 0 (an absent usable reads as 0) every
\* requested target is at most max(actual + free, min).
C20_GrowthBounded ==
    \A i \in SetMemoryCalls :
        Field("usable") >= 0
            => calls[i].arg <= Max(Field("actual") + args.free, args.min)

C20_Witness ==
    /\ state = VIR_DOMAIN_RUNNING
    /\ \E p \in memStats : p[1] = "actual"
    /\ \A p \in memStats : p[1] # "usable"
    /\ args.free > 0
    /\ \E i \in SetMemoryCalls :
          /\ calls[i].arg = Field("actual") + args.free
          /\ calls[i].arg > args.min

====
